---- MODULE Spec2Model ----
(***************************************************************************)
(* Model of the change-batching and deduplication core of the BadPractice  *)
(* agent: the watch client (src/cli/bp.py) and the analysis backend        *)
(* (src/backend/app.py).                                                   *)
(*                                                                         *)
(* Strings are sequences of symbols; a symbol is one character ("a", "|")  *)
(* or a token that stands for a run of characters holding neither '|' nor  *)
(* ':' ("modified", the hex digest "h1").  sha256 is modelled as an        *)
(* injective function: the digest of a file content is a hex token, the    *)
(* digest of a composed seed is the record [sha256 |-> seed].              *)
(***************************************************************************)
EXTENDS Integers, Sequences, FiniteSets, TLC

(* ---------------- program constants (seconds, scaled) ---------------- *)
DEBOUNCE_SECONDS == 2
INPUT_DEDUPE_TTL == 3
FILE_COOLDOWN_SEC == 5
BATCH_TTL == 2
EMAIL_MIN_INTERVAL == 2
\* os.getenv("ALLOW_MULTI_MOD_EMAILS", "0") == "1"
ALLOW_MULTI_MOD_EMAILS == FALSE

(* ---------------- bounds of the model ---------------- *)
\* the clock runs from Epoch to Epoch + ClockSpan
ClockSpan == 3
\* filesystem changes the environment makes in one run
MaxEvents == 2
\* requests the backend receives in one run
MaxRequests == 3

(* ---------------- strings ---------------- *)
NoFile == "<absent>"
Contents == {"c1", "c2"}

\* code point of a symbol, as Python's str comparison orders it
Ord(c) ==
    CASE c = ":" -> 58
      [] c = "A" -> 65
      [] c = "B" -> 66
      [] c = "a" -> 97
      [] c = "b" -> 98
      [] c = "|" -> 124
      [] OTHER -> 200

\* str.lower() on one symbol
LowerChar(c) ==
    CASE c = "A" -> "a"
      [] c = "B" -> "b"
      [] OTHER -> c

\* str.lower()
Lower(s) == [i \in 1..Len(s) |-> LowerChar(s[i])]

RECURSIVE StrLess(_, _)
\* s < t on Python strings
StrLess(s, t) ==
    IF t = <<>> THEN FALSE
    ELSE IF s = <<>> THEN TRUE
    ELSE IF Ord(s[1]) < Ord(t[1]) THEN TRUE
    ELSE IF Ord(s[1]) > Ord(t[1]) THEN FALSE
    ELSE StrLess(Tail(s), Tail(t))

Front(s) == SubSeq(s, 1, Len(s) - 1)

RECURSIVE Join(_, _)
\* sep.join(parts)
Join(parts, sep) ==
    IF parts = <<>> THEN <<>>
    ELSE IF Len(parts) = 1 THEN parts[1]
    ELSE parts[1] \o sep \o Join(Tail(parts), sep)

RECURSIVE SortedStrs(_)
\* sorted(paths) of a set of strings
SortedStrs(S) ==
    IF S = {} THEN <<>>
    ELSE LET m == CHOOSE x \in S : \A y \in S \ {x} : StrLess(x, y)
         IN <<m>> \o SortedStrs(S \ {m})

(* ---------------- digests ---------------- *)
\* hashlib.sha256(content).hexdigest() of a file content: a hex token
HexDigest(c) ==
    CASE c = "c1" -> "h1"
      [] c = "c2" -> "h2"
      [] OTHER -> "h0"

\* _hash_txt of a composed string
_hash_txt(s) == [sha256 |-> s]

(* ---------------- client fingerprint ---------------- *)
RECURSIVE InsertByLowerPath(_, _)
\* one step of Python's stable sort on key path.lower(): f goes after every
\* element whose key is <= its own
InsertByLowerPath(s, f) ==
    IF s = <<>> THEN <<f>>
    ELSE IF StrLess(Lower(f.path), Lower(s[Len(s)].path))
         THEN InsertByLowerPath(Front(s), f) \o <<s[Len(s)]>>
         ELSE s \o <<f>>

RECURSIVE SortByLowerPath(_)
\* sorted(files, key=lambda x: path.lower())
SortByLowerPath(files) ==
    IF files = <<>> THEN <<>>
    ELSE InsertByLowerPath(SortByLowerPath(Front(files)), files[Len(files)])

\* f"{path}:{digest}" for every file, in sorted order
FileParts(files) ==
    LET s == SortByLowerPath(files)
    IN [i \in 1..Len(s) |-> s[i].path \o <<":">> \o <<HexDigest(s[i].content)>>]

\* the seed string of _batch_id
_batch_seed(files, reason) == <<reason>> \o <<"|">> \o Join(FileParts(files), <<"|">>)

_batch_id(files, reason) == _hash_txt(_batch_seed(files, reason))

(* ---------------- the payload and the server fingerprint ---------------- *)
\* the JSON payload _post_batch sends: it has no "repo_id" key
PostPayload(email, files, reason, created, batch_id) ==
    [email |-> email, files |-> files, notify_reason |-> reason,
     created_paths |-> created, batch_id |-> batch_id]

\* payload.get("repo_id", "")
RepoIdOf(payload) ==
    IF "repo_id" \in DOMAIN payload THEN payload.repo_id ELSE <<>>

RECURSIVE InsertStr(_, _)
InsertStr(s, x) ==
    IF s = <<>> THEN <<x>>
    ELSE IF StrLess(x, s[Len(s)])
         THEN InsertStr(Front(s), x) \o <<s[Len(s)]>>
         ELSE s \o <<x>>

RECURSIVE SortedList(_)
\* sorted(created_paths) of a list of strings
SortedList(l) ==
    IF l = <<>> THEN <<>>
    ELSE InsertStr(SortedList(Front(l)), l[Len(l)])

\* backend _digest: the same sha256 of the utf-8 text as the client's _hash_txt
_digest(s) == [sha256 |-> s]

\* a seed that trusts the batch_id of the payload
SeedWithBatchId(payload) ==
    payload.batch_id.sha256 \o <<"|">> \o
    Join(<<RepoIdOf(payload), <<payload.notify_reason>>>>
            \o SortedList(payload.created_paths)
            \o FileParts(payload.files),
         <<"|">>)

\* the string _batch_fingerprint digests: "|".join([rid, reason] + created + parts)
_fingerprint_seed(payload) ==
    Join(<<RepoIdOf(payload), <<payload.notify_reason>>>>
            \o SortedList(payload.created_paths)
            \o FileParts(payload.files),
         <<"|">>)

_batch_fingerprint(payload) == _digest(_fingerprint_seed(payload))

(* ======================= watch client state ======================= *)
VARIABLES
    clock,            \* time.time(), whole seconds
    disk,             \* path -> content on disk, or NoFile
    events,           \* filesystem changes made so far
    pending_paths,    \* watch(): pending_paths
    pending_created,  \* watch(): pending_created
    last_event_ts,    \* watch(): last_event_ts
    file_seen,        \* keys of the file_seen dict (every value is True)
    last_notify,      \* path -> [ts, digest], for the paths that have an entry
    recent_batch_ids, \* list of <<ts, bid>>
    history,          \* content of the persisted state file .bp-history.json
    state_file,       \* what the state file is: "missing", "unparsable", "list", "dict"
    pc,               \* position of the dispatch loop inside _maybe_send
    now,              \* _maybe_send: now
    files_all,        \* _maybe_send: files_all
    files_to_send,    \* _maybe_send: files_to_send
    created_paths,    \* _maybe_send: created_paths
    bid,              \* _maybe_send: bid
    outcome,          \* how the _post_batch call of this cycle ended
    hpc,              \* position of the observer thread inside H._q
    h_rel,            \* H._q: rel
    cycle_pre,        \* what the running cycle found when it started
    unmaterialized,   \* paths recorded by H._q since the last snapshot that held them
    burst,            \* per path: the current burst of events on it
    dispatched        \* the batches _post_batch delivered: [bid, ts, parts]

\* state of the fingerprint computations
VARIABLES
    fp_batch,   \* the batch: files, reason, repo (the watched root), created
    fp_out,     \* the client's _batch_id and the server's _batch_fingerprint of it
    fp_prev,    \* fp_out of the batch before the last change
    fp_op,      \* the last change made to the batch
    fp_was      \* the batch before the last change

fpVars == <<fp_batch, fp_out, fp_prev, fp_op, fp_was>>

\* state of the backend
VARIABLES
    RECENT_BATCH,   \* app.py RECENT_BATCH: fingerprint -> ts, for the recorded ones
    EMAIL_STATE,    \* app.py EMAIL_STATE: email -> [ts, digest]
    req,            \* per request thread: position in analyze_batch and its locals
    srv_log         \* the requests answered so far, in the order of the answers

srvVars == <<RECENT_BATCH, EMAIL_STATE, req, srv_log>>

watchVars == <<disk, events, pending_paths, pending_created, last_event_ts,
               file_seen, last_notify, recent_batch_ids, history, state_file, pc, now,
               files_all, files_to_send, created_paths, bid, outcome, hpc, h_rel, cycle_pre,
               unmaterialized, burst, dispatched>>

\* what the actions of one component leave alone
notWatch == <<fpVars, srvVars>>
notFp == <<clock, watchVars, srvVars>>
notSrv == <<watchVars, fpVars>>

WatchPaths == {<<"a">>, <<"b">>}
\* time.time() when the session starts: last_event_ts starts at 0.0, so the
\* first quiet-period test sees a quiet period that has long elapsed
Epoch == DEBOUNCE_SECONDS
MaxClock == Epoch + ClockSpan
NoBid == _hash_txt(<<>>)

\* the dict _load_state returns when there is no state file
EmptyState == [file_seen |-> {}, last_notify |-> <<>>, recent_batch_ids |-> <<>>]

\* the state file a previous session left: it sent b with content c1 as a
\* 'modified' batch at time 0 and saved
PriorState ==
    [file_seen |-> {<<"b">>},
     last_notify |-> (<<"b">> :> [ts |-> 0, digest |-> HexDigest("c1")]),
     recent_batch_ids |->
        <<<<0, _batch_id(<<[path |-> <<"b">>, content |-> "c1"]>>, "modified")>>>>]

DedupState == [file_seen |-> file_seen, last_notify |-> last_notify,
               recent_batch_ids |-> recent_batch_ids, history |-> history]

\* what a cycle found when it started
CyclePre == [dedup |-> DedupState, last_event_ts |-> last_event_ts,
             pending_paths |-> pending_paths]

\* outside a cycle there is no snapshot
NoPre == [dedup |-> [file_seen |-> {}, last_notify |-> <<>>,
                     recent_batch_ids |-> <<>>, history |-> EmptyState],
          last_event_ts |-> 0, pending_paths |-> {}]

\* phase: "none" before the first event on the path, "open" while the last
\* event on it is less than DEBOUNCE_SECONDS old, "over" after that;
\* last: time of the last event (0 unless open); mat: snapshots of
\* pending_paths that held the path since the burst began (counted to 2);
\* modify_only: every event of the burst was a modify event
NoBurst == [phase |-> "none", last |-> 0, mat |-> 0, modify_only |-> TRUE]

(* ---------------- helpers of the watch loop ---------------- *)
\* a load that forgets the file
LoadFresh(kind, blob) == EmptyState

\* _load_state: the parsed file when it exists and json.loads accepts it, the
\* default dict otherwise; a file that holds a JSON list comes back as a list
_load_state(kind, blob) ==
    IF kind \in {"missing", "unparsable"} THEN EmptyState ELSE blob

\* state.get("file_seen", {}) raises AttributeError on a value that is no dict
StateGetRaises(kind) == kind = "list"

\* a directory name of EXCLUDE_DIRS_DEFAULT
EXCLUDE_DIRS == {"node_modules"}

\* a file of the watched tree that lies under an excluded directory
ExcludedPath == <<"node_modules", "/", "a">>

\* any(part in exclude_dirs for part in p.relative_to(root).parts[:-1])
InExcludedDir(p) == \E i \in 1..(Len(p) - 1) : p[i] \in EXCLUDE_DIRS

\* _collect_specific: the pending paths in sorted order that are under no
\* excluded directory and exist on disk
_collect_specific(paths, d) ==
    LET s == SortedStrs(paths)
        Exists(p) == ~InExcludedDir(p) /\ d[p] # NoFile
        present == SelectSeq(s, Exists)
    IN [i \in 1..Len(present) |-> [path |-> present[i], content |-> d[present[i]]]]

\* a cooldown that still holds at exactly FILE_COOLDOWN_SEC
CooldownSkipLoose(ln, path, digest, t) ==
    /\ path \in DOMAIN ln
    /\ (t - ln[path].ts) <= FILE_COOLDOWN_SEC
    /\ ln[path].digest = digest

\* the cooldown test of _maybe_send: skip a file whose digest was sent recently
_cooldown_skip(ln, path, digest, t) ==
    /\ path \in DOMAIN ln
    /\ (t - ln[path].ts) < FILE_COOLDOWN_SEC
    /\ ln[path].digest = digest

\* an eviction that drops nothing
EvictNone(ids, t) == ids

RECURSIVE _evict(_, _)
\* _evict: drop expired entries from the front of the list
_evict(ids, t) ==
    IF ids # <<>> /\ (t - ids[1][1]) > INPUT_DEDUPE_TTL
    THEN _evict(Tail(ids), t)
    ELSE ids

\* a guard that finds no fingerprint
AlreadyNever(ids, b) == FALSE

\* _already, on the evicted list
_already(ids, b) == \E i \in 1..Len(ids) : ids[i][2] = b

\* _remember
_remember(ids, b, t) == _evict(Append(ids, <<t, b>>), t)

SeqToSet(s) == {s[i] : i \in 1..Len(s)}
PathsOf(files) == {files[i].path : i \in 1..Len(files)}

\* the burst an event on p at time t belongs to
BurstOnEvent(b, t, created) ==
    IF b.phase = "open"
    THEN [b EXCEPT !.last = t, !.modify_only = @ /\ ~created]
    ELSE [phase |-> "open", last |-> t, mat |-> 0, modify_only |-> ~created]

\* a snapshot of pending_paths holds the path
BurstOnSnapshot(b) == [b EXCEPT !.mat = IF @ < 2 THEN @ + 1 ELSE @]

\* the clock reaches t
BurstOnTick(b, t) ==
    IF b.phase = "open" /\ t - b.last >= DEBOUNCE_SECONDS
    THEN [b EXCEPT !.phase = "over", !.last = 0]
    ELSE b

\* what the previous session of PriorState delivered
PriorDispatched ==
    {[bid |-> PriorState.recent_batch_ids[1][2], ts |-> 0,
      parts |-> SeqToSet(FileParts(<<[path |-> <<"b">>, content |-> "c1"]>>))]}

(* ---------------- the observer thread: H._q ---------------- *)
\* the environment creates or rewrites file p; on_created / on_modified runs
\* _q up to pending_paths.add(rel)
QAdd(p, c, created) ==
    /\ pc # "crashed"
    /\ hpc = "idle"
    /\ events < MaxEvents
    /\ IF created THEN disk[p] = NoFile ELSE disk[p] # NoFile
    /\ disk' = [disk EXCEPT ![p] = c]
    /\ events' = events + 1
    /\ pending_paths' = pending_paths \cup {p}
    /\ h_rel' = p
    /\ hpc' = IF created THEN "created" ELSE "ts"
    /\ unmaterialized' = unmaterialized \cup {p}
    /\ burst' = [burst EXCEPT ![p] = BurstOnEvent(@, clock, created)]
    /\ UNCHANGED <<clock, pending_created, last_event_ts, file_seen, last_notify,
                   recent_batch_ids, history, state_file, dispatched, pc, now, files_all, files_to_send,
                   created_paths, bid, outcome, cycle_pre>>
    /\ UNCHANGED notWatch

\* the environment creates or rewrites a file under an excluded directory
\* (an in-scope file name); _q runs up to pending_paths.add(rel)
QAddExcluded(created) ==
    /\ pc # "crashed"
    /\ hpc = "idle"
    /\ events < MaxEvents
    /\ events' = events + 1
    /\ pending_paths' = pending_paths \cup {ExcludedPath}
    /\ h_rel' = ExcludedPath
    /\ hpc' = IF created THEN "created" ELSE "ts"
    /\ UNCHANGED <<clock, disk, pending_created, last_event_ts, file_seen, last_notify,
                   recent_batch_ids, history, state_file, dispatched, pc, now, files_all,
                   files_to_send, created_paths, bid, outcome, cycle_pre,
                   unmaterialized, burst>>
    /\ UNCHANGED notWatch

\* if created: pending_created.add(rel)
QCreated ==
    /\ hpc = "created"
    /\ pending_created' = pending_created \cup {h_rel}
    /\ hpc' = "ts"
    /\ UNCHANGED <<clock, disk, events, pending_paths, last_event_ts, file_seen,
                   last_notify, recent_batch_ids, history, state_file, dispatched, pc, now, files_all,
                   files_to_send, created_paths, bid, outcome, h_rel,
                   cycle_pre, unmaterialized, burst>>
    /\ UNCHANGED notWatch

\* last_event_ts = time.time()
QStamp ==
    /\ hpc = "ts"
    /\ last_event_ts' = clock
    /\ hpc' = "idle"
    /\ h_rel' = <<>>
    /\ UNCHANGED <<clock, disk, events, pending_paths, pending_created, file_seen,
                   last_notify, recent_batch_ids, history, state_file, dispatched, pc, now, files_all,
                   files_to_send, created_paths, bid, outcome, cycle_pre,
                   unmaterialized, burst>>
    /\ UNCHANGED notWatch

\* a file is removed; H handles no delete event
FsDelete(p) ==
    /\ events < MaxEvents
    /\ disk[p] # NoFile
    /\ disk' = [disk EXCEPT ![p] = NoFile]
    /\ events' = events + 1
    /\ UNCHANGED <<clock, pending_paths, pending_created, last_event_ts, file_seen,
                   last_notify, recent_batch_ids, history, state_file, dispatched, pc, now, files_all,
                   files_to_send, created_paths, bid, outcome, hpc, h_rel,
                   cycle_pre, unmaterialized, burst>>
    /\ UNCHANGED notWatch

(* ---------------- the dispatch loop: _maybe_send ---------------- *)
\* the files _maybe_send keeps after the cooldown test
FilesToSend(files, ln, t) ==
    LET Keep(f) == ~_cooldown_skip(ln, f.path, HexDigest(f.content), t)
    IN SelectSeq(files, Keep)

\* the created_paths list _maybe_send builds
CreatedPaths(files, created, seen) ==
    LET IsNew(f) == f.path \in created /\ f.path \notin seen
        new == SelectSeq(files, IsNew)
    IN [i \in 1..Len(new) |-> new[i].path]

Reason(created) == IF created # <<>> THEN "created" ELSE "modified"

\* now = time.time(); the two early returns on an empty pending set and on
\* an unfinished quiet period
MaybeSendBegin ==
    /\ pc = "sleep"
    /\ pending_paths # {}
    /\ ~((clock - last_event_ts) < DEBOUNCE_SECONDS)
    /\ now' = clock
    /\ pc' = "collect"
    /\ cycle_pre' = CyclePre
    /\ UNCHANGED <<clock, disk, events, pending_paths, pending_created, last_event_ts,
                   file_seen, last_notify, recent_batch_ids, history, state_file, dispatched, files_all,
                   files_to_send, created_paths, bid, outcome, hpc, h_rel,
                   unmaterialized, burst>>
    /\ UNCHANGED notWatch

\* files_all = _collect_specific(root, pending_paths, ...)
MaybeSendCollect ==
    /\ pc = "collect"
    /\ files_all' = _collect_specific(pending_paths, disk)
    /\ pc' = IF files_all' = <<>> THEN "clear" ELSE "filter"
    /\ unmaterialized' = unmaterialized \ pending_paths
    /\ burst' = [p \in WatchPaths |->
                    IF p \in pending_paths
                    THEN BurstOnSnapshot(burst[p])
                    ELSE burst[p]]
    /\ UNCHANGED <<clock, disk, events, pending_paths, pending_created, last_event_ts,
                   file_seen, last_notify, recent_batch_ids, history, state_file, dispatched, now,
                   files_to_send, created_paths, bid, outcome, hpc, h_rel,
                   cycle_pre>>
    /\ UNCHANGED notWatch

\* the cooldown filter, the fingerprint, the duplicate-batch guard and the
\* file_seen marks, up to the _post_batch call
MaybeSendFilter ==
    /\ pc = "filter"
    /\ LET fts == FilesToSend(files_all, last_notify, now)
           cps == CreatedPaths(fts, pending_created, file_seen)
           b == _batch_id(fts, Reason(cps))
           ids == _evict(recent_batch_ids, now)
       IN /\ files_to_send' = fts
          /\ created_paths' = cps
          /\ IF fts = <<>>
             THEN /\ pc' = "clear"
                  /\ UNCHANGED <<bid, recent_batch_ids, file_seen>>
             ELSE /\ bid' = b
                  /\ recent_batch_ids' = ids
                  /\ IF _already(ids, b)
                     THEN pc' = "clear" /\ UNCHANGED file_seen
                     ELSE pc' = "post" /\ file_seen' = file_seen \cup PathsOf(fts)
    /\ UNCHANGED <<clock, disk, events, pending_paths, pending_created, last_event_ts,
                   last_notify, history, state_file, dispatched, now, files_all, outcome, hpc, h_rel,
                   cycle_pre, unmaterialized, burst>>
    /\ UNCHANGED notWatch

\* a success path that stamps no file
NotifyNone(ln, files, t) == ln

\* last_notify[path] = {"ts": now, "digest": ...} for every file sent
NotifyAll(ln, files, t) ==
    [p \in DOMAIN ln \cup PathsOf(files) |->
        IF p \in PathsOf(files)
        THEN LET f == CHOOSE g \in SeqToSet(files) : g.path = p
             IN [ts |-> t, digest |-> HexDigest(f.content)]
        ELSE ln[p]]

\* _post_batch returned: remember the batch, stamp the files, save the state
MaybeSendPostOk ==
    /\ pc = "post"
    /\ recent_batch_ids' = _remember(recent_batch_ids, bid, now)
    /\ last_notify' = NotifyAll(last_notify, files_to_send, now)
    /\ history' = [file_seen |-> file_seen, last_notify |-> last_notify',
                   recent_batch_ids |-> recent_batch_ids']
    /\ state_file' = "dict"
    /\ dispatched' = dispatched \cup {[bid |-> bid, ts |-> now,
                                        parts |-> SeqToSet(FileParts(files_to_send))]}
    /\ outcome' = "ok"
    /\ pc' = "clear"
    /\ UNCHANGED <<clock, disk, events, pending_paths, pending_created, last_event_ts,
                   file_seen, now, files_all, files_to_send, created_paths, bid, hpc,
                   h_rel, cycle_pre, unmaterialized, burst>>
    /\ UNCHANGED notWatch

\* _post_batch raised (connection error, timeout, HTTP status not ok)
MaybeSendPostFail ==
    /\ pc = "post"
    /\ outcome' = "failed"
    /\ pc' = "clear"
    /\ UNCHANGED <<clock, disk, events, pending_paths, pending_created, last_event_ts,
                   file_seen, last_notify, recent_batch_ids, history, state_file, dispatched, now, files_all,
                   files_to_send, created_paths, bid, hpc, h_rel, cycle_pre,
                   unmaterialized, burst>>
    /\ UNCHANGED notWatch

\* pending_paths.clear()
MaybeSendClearPaths ==
    /\ pc = "clear"
    /\ pending_paths' = {}
    /\ pc' = "clear_created"
    /\ UNCHANGED <<clock, disk, events, pending_created, last_event_ts, file_seen,
                   last_notify, recent_batch_ids, history, state_file, dispatched, now, files_all,
                   files_to_send, created_paths, bid, outcome, hpc, h_rel,
                   cycle_pre, unmaterialized, burst>>
    /\ UNCHANGED notWatch

\* pending_created.clear(); return
MaybeSendClearCreated ==
    /\ pc = "clear_created"
    /\ pending_created' = {}
    /\ pc' = "sleep"
    /\ files_all' = <<>>
    /\ files_to_send' = <<>>
    /\ created_paths' = <<>>
    /\ bid' = NoBid
    /\ outcome' = "none"
    /\ now' = 0
    /\ cycle_pre' = NoPre
    /\ UNCHANGED <<clock, disk, events, pending_paths, last_event_ts, file_seen,
                   last_notify, recent_batch_ids, history, state_file, dispatched, hpc, h_rel,
                   unmaterialized, burst>>
    /\ UNCHANGED notWatch

\* a second passes: the loop is in time.sleep(1) or waits for the response
\* (H._q and the other steps of _maybe_send take no measurable time); a
\* request thread of the backend is in the LLM call of ai_scan (its other
\* steps take no measurable time)
Tick ==
    /\ pc \in {"sleep", "post"}
    /\ hpc = "idle"
    /\ \A r \in DOMAIN req : req[r].pc \in {"idle", "scan"}
    /\ clock < MaxClock
    /\ clock' = clock + 1
    /\ burst' = [p \in WatchPaths |-> BurstOnTick(burst[p], clock + 1)]
    /\ UNCHANGED <<disk, events, pending_paths, pending_created, last_event_ts,
                   file_seen, last_notify, recent_batch_ids, history, state_file, dispatched, pc, now,
                   files_all, files_to_send, created_paths, bid, outcome, hpc, h_rel,
                   cycle_pre, unmaterialized>>
    /\ UNCHANGED notWatch

\* Ctrl+C while the loop sleeps, then bp watch again: the state file is loaded,
\* the pending sets start empty
Restart ==
    /\ pc = "sleep"
    /\ hpc = "idle"
    /\ pc' = IF StateGetRaises(state_file) THEN "crashed" ELSE "sleep"
    /\ file_seen' = _load_state(state_file, history).file_seen
    /\ last_notify' = _load_state(state_file, history).last_notify
    /\ recent_batch_ids' = _load_state(state_file, history).recent_batch_ids
    /\ pending_paths' = {}
    /\ pending_created' = {}
    /\ last_event_ts' = 0
    /\ unmaterialized' = {}
    /\ burst' = [p \in WatchPaths |-> NoBurst]
    /\ UNCHANGED <<clock, disk, events, history, state_file, dispatched, now, files_all,
                   files_to_send, created_paths, bid, outcome, hpc, h_rel, cycle_pre>>
    /\ UNCHANGED notWatch

WatchNext ==
    \/ \E p \in WatchPaths, c \in Contents, created \in BOOLEAN : QAdd(p, c, created)
    \/ QCreated
    \/ QStamp
    \/ \E p \in WatchPaths : FsDelete(p)
    \/ MaybeSendBegin
    \/ MaybeSendCollect
    \/ MaybeSendFilter
    \/ MaybeSendPostOk
    \/ MaybeSendPostFail
    \/ MaybeSendClearPaths
    \/ MaybeSendClearCreated
    \/ Tick

\* a session in a tree that has an excluded directory with files in it
ExcludedNext ==
    \/ WatchNext
    \/ \E created \in BOOLEAN : QAddExcluded(created)

\* watch sessions one after the other on the same state file
SessionsNext ==
    \/ WatchNext
    \/ Restart

(* ======================= fingerprint functions ======================= *)

\* files of one fingerprinted batch
MaxFpFiles == 2
FpPaths == {<<"A">>, <<"a">>, <<"b">>}
FpRepos == {"repo1", "repo2"}
Email == "dev@example.com"

FpFile == [path : FpPaths, content : Contents]

FpFileLists ==
    {l \in UNION {[1..n -> FpFile] : n \in 1..MaxFpFiles} :
        \A i, j \in 1..Len(l) : i # j => l[i].path # l[j].path}

\* the created_paths a client can send with these files: none, or some of the
\* files' paths in the order of the files
FpCreatedLists(files) ==
    {l \in UNION {[1..n -> PathsOf(files)] : n \in 0..Len(files)} :
        \A i, j \in 1..Len(l) : i < j =>
            \E a, b \in 1..Len(files) : a < b /\ files[a].path = l[i] /\ files[b].path = l[j]}

FpBatches ==
    {[files |-> f, reason |-> r, repo |-> rp, created |-> c] :
        f \in FpFileLists, r \in {"initial", "modified", "created"}, rp \in FpRepos,
        c \in UNION {FpCreatedLists(g) : g \in FpFileLists}}

\* a batch the client can build: reason is 'created' iff it has created paths
ClientBatch(b) ==
    /\ b.created \in FpCreatedLists(b.files)
    /\ (b.reason = "created") <=> (b.created # <<>>)

NoOut == [client |-> NoBid, server |-> NoBid]
NoBatch == [files |-> <<>>, reason |-> "initial", repo |-> "repo1", created |-> <<>>]

\* the fingerprint the client sends and the one the server recomputes from the
\* payload it receives
Fingerprints(b) ==
    LET id == _batch_id(b.files, b.reason)
    IN [client |-> id,
        server |-> _batch_fingerprint(PostPayload(Email, b.files, b.reason, b.created, id))]

Swap(l, i) ==
    [k \in 1..Len(l) |-> IF k = i THEN l[i + 1] ELSE IF k = i + 1 THEN l[i] ELSE l[k]]

Refingerprint(b, op) ==
    /\ fp_batch' = b
    /\ fp_prev' = fp_out
    /\ fp_out' = Fingerprints(b)
    /\ fp_op' = op
    /\ fp_was' = fp_batch
    /\ UNCHANGED notFp

\* the client computes _batch_id and posts; the server computes _batch_fingerprint
FpCompute ==
    /\ fp_op = "input"
    /\ fp_out' = Fingerprints(fp_batch)
    /\ fp_op' = "computed"
    /\ UNCHANGED <<fp_batch, fp_prev, fp_was>>
    /\ UNCHANGED notFp

\* the same files arrive in another order
FpPermute(i) ==
    /\ fp_op # "input"
    /\ i \in 1..(Len(fp_batch.files) - 1)
    /\ Refingerprint([fp_batch EXCEPT !.files = Swap(@, i)], "permuted")

\* one file's content changes
FpChangeContent(i, c) ==
    /\ fp_op # "input"
    /\ i \in 1..Len(fp_batch.files)
    /\ c # fp_batch.files[i].content
    /\ Refingerprint([fp_batch EXCEPT !.files[i].content = c], "content")

\* the reason changes
FpChangeReason(r) ==
    /\ fp_op # "input"
    /\ fp_batch.created = <<>>
    /\ r \in {"initial", "modified"} \ {fp_batch.reason}
    /\ Refingerprint([fp_batch EXCEPT !.reason = r], "reason")

\* the same batch comes from another repository
FpChangeRepo(rp) ==
    /\ fp_op # "input"
    /\ rp # fp_batch.repo
    /\ Refingerprint([fp_batch EXCEPT !.repo = rp], "repo")

\* paths of the watched tree; '|' and ':' are ordinary characters of a file
\* name, and a digest is a string of hex digits
SeedPaths == {<<"a">>, <<"b">>, <<"a", ":", HexDigest("c1"), "|", "b">>}

SeedFileLists ==
    {l \in UNION {[1..n -> [path : SeedPaths, content : Contents]] : n \in 1..MaxFpFiles} :
        \A i, j \in 1..Len(l) : i # j => l[i].path # l[j].path}

\* the batches a client can build from these files
SeedBatches ==
    {b \in [files : SeedFileLists, reason : {"modified", "created"}, repo : FpRepos,
            created : {<<>>} \cup {<<p>> : p \in SeedPaths}] :
        /\ (b.reason = "created") <=> (b.created # <<>>)
        /\ \A i \in 1..Len(b.created) : b.created[i] = b.files[1].path}

\* the client builds another batch
FpReplace(b) ==
    /\ fp_op # "input"
    /\ b # fp_batch
    /\ Refingerprint(b, "replaced")

SeedNext ==
    \/ FpCompute
    \/ \E b \in SeedBatches : FpReplace(b)

FpNext ==
    \/ FpCompute
    \/ \E i \in 1..MaxFpFiles : FpPermute(i)
    \/ \E i \in 1..MaxFpFiles, c \in Contents : FpChangeContent(i, c)
    \/ \E r \in {"initial", "modified"} : FpChangeReason(r)
    \/ \E rp \in FpRepos : FpChangeRepo(rp)

(* ======================= backend: analyze_batch ======================= *)
Reqs == {1, 2}

File(p, c) == [path |-> <<p>>, content |-> c]

\* a batch as the watch client posts it
ClientPayload(files, created) ==
    PostPayload(Email, files, Reason(created), created, _batch_id(files, Reason(created)))

\* the payloads the backend receives
SrvPayloads ==
    { ClientPayload(<<File("b", "c1")>>, <<>>),
      ClientPayload(<<File("a", "c1"), File("b", "c1")>>, <<>>),
      ClientPayload(<<File("a", "c1")>>, <<<<"a">>>>) }

\* batches for one recipient: b is sent, rewritten and sent again, a is created
MailPayloads ==
    { ClientPayload(<<File("b", "c1")>>, <<>>),
      ClientPayload(<<File("b", "c2")>>, <<>>),
      ClientPayload(<<File("a", "c1")>>, <<<<"a">>>>) }

\* values a client can put into batch_id: its own _batch_id, or anything else
ForgedBatchIds == {_hash_txt(<<"x">>)}

\* one batch, sent with its own batch_id and with another one, and another batch
IdPayloads ==
    { ClientPayload(<<File("b", "c1")>>, <<>>),
      ClientPayload(<<File("a", "c1")>>, <<<<"a">>>>) }
    \cup {[ClientPayload(<<File("b", "c1")>>, <<>>) EXCEPT !.batch_id = x] : x \in ForgedBatchIds}

IdleReq == [pc |-> "idle"]

\* an entry that expires already at exactly BATCH_TTL
ExpiredAtTtl(ts, t) == t - ts >= BATCH_TTL

\* the test of the prune loop
Expired(ts, t) == t - ts > BATCH_TTL

\* a prune step that removes nothing
PrunedNone(rb, t) == rb

\* for k in list(RECENT_BATCH.keys()): if now - RECENT_BATCH[k] > BATCH_TTL: del ...
Pruned(rb, t) == [k \in {x \in DOMAIN rb : ~Expired(rb[x], t)} |-> rb[k]]

\* the guard on multi-file 'modified' batches
MultiFileModified(payload) ==
    /\ ~ALLOW_MULTI_MOD_EMAILS
    /\ payload.notify_reason = "modified"
    /\ payload.created_paths = <<>>
    /\ Len(payload.files) > 1

Sum(issues) == Cardinality({i \in DOMAIN issues : issues[i] = 1})

\* results.items() with a non-empty list of warnings: <<path, number of warnings>>
Findings(files, issues) ==
    LET all == [i \in 1..Len(files) |-> <<files[i].path, issues[i]>>]
        Flagged(x) == x[2] > 0
    IN SelectSeq(all, Flagged)

\* _format_email: the body names the kind of report, _now_iso() and the
\* findings of every file
_format_email(payload, issues, t) ==
    [subject |-> [kind |-> IF payload.notify_reason = "initial" THEN "audit"
                           ELSE IF payload.created_paths # <<>> THEN "new file"
                           ELSE "update",
                  fn |-> IF payload.notify_reason # "initial" /\ payload.created_paths # <<>>
                         THEN payload.created_paths[1] ELSE <<>>,
                  total |-> Sum(issues)],
     body |-> [intro |-> IF payload.notify_reason = "initial" THEN "audit"
                         ELSE IF payload.created_paths # <<>> THEN "new file"
                         ELSE "update",
               ts |-> t,
               total |-> Sum(issues),
               findings |-> Findings(payload.files, issues)]]

\* the test of _should_send
Suppressed(es, email, body, t) ==
    /\ email \in DOMAIN es
    /\ es[email].digest = _digest(body)
    /\ (t - es[email].ts) < EMAIL_MIN_INTERVAL

DedupedResponse(payload) ==
    [files_analyzed |-> Len(payload.files), issues_found |-> 0,
     email_sent |-> FALSE, deduped |-> TRUE]

SuppressedResponse(payload) ==
    [files_analyzed |-> Len(payload.files), issues_found |-> 0,
     email_sent |-> FALSE, suppressed |-> "multi-file-modified"]

AnalyzedResponse(payload, total, sent, issues, fp) ==
    [files_analyzed |-> Len(payload.files), issues_found |-> total,
     email_sent |-> sent, results |-> issues, dedupe_fp |-> fp]

\* at: the time of the email step, 0 for an answer given before it
Answer(r, response, scans, emails, at) ==
    /\ srv_log' = Append(srv_log, [payload |-> req[r].payload, now |-> req[r].now,
                                   response |-> response, scans |-> scans,
                                   emails |-> emails, at |-> at])
    /\ req' = [req EXCEPT ![r] = IdleReq]

Active == {r \in Reqs : req[r].pc # "idle"}

\* a request arrives: get_json, fp = _batch_fingerprint(data), now = time.time();
\* alone: no other request is being handled, and one thread serves them all
SrvReceive(r, payload, alone) ==
    /\ req[r].pc = "idle"
    /\ alone => Active = {} /\ r = 1
    /\ Len(srv_log) + Cardinality(Active) < MaxRequests
    /\ req' = [req EXCEPT ![r] = [pc |-> "prune", payload |-> payload,
                                  fp |-> _batch_fingerprint(payload), now |-> clock]]
    /\ UNCHANGED <<clock, RECENT_BATCH, EMAIL_STATE, srv_log>>
    /\ UNCHANGED notSrv

\* the prune loop over RECENT_BATCH
SrvPrune(r) ==
    /\ req[r].pc = "prune"
    /\ RECENT_BATCH' = Pruned(RECENT_BATCH, req[r].now)
    /\ req' = [req EXCEPT ![r].pc = "test"]
    /\ UNCHANGED <<clock, EMAIL_STATE, srv_log>>
    /\ UNCHANGED notSrv

\* if fp in RECENT_BATCH: return the duplicate response
SrvTest(r) ==
    /\ req[r].pc = "test"
    /\ IF req[r].fp \in DOMAIN RECENT_BATCH
       THEN Answer(r, DedupedResponse(req[r].payload), 0, 0, 0)
       ELSE req' = [req EXCEPT ![r].pc = "record"] /\ UNCHANGED srv_log
    /\ UNCHANGED <<clock, RECENT_BATCH, EMAIL_STATE>>
    /\ UNCHANGED notSrv

\* a record step that keeps the fingerprint only of a batch it goes on to scan
SrvRecordUndone(r) ==
    /\ req[r].pc = "record"
    /\ IF MultiFileModified(req[r].payload)
       THEN /\ Answer(r, SuppressedResponse(req[r].payload), 0, 0, 0)
            /\ UNCHANGED RECENT_BATCH
       ELSE /\ RECENT_BATCH' = (req[r].fp :> req[r].now) @@ RECENT_BATCH
            /\ req' = [req EXCEPT ![r].pc = "scan"]
            /\ UNCHANGED srv_log
    /\ UNCHANGED <<clock, EMAIL_STATE>>
    /\ UNCHANGED notSrv

\* RECENT_BATCH[fp] = now, then the multi-file 'modified' guard
SrvRecord(r) ==
    /\ req[r].pc = "record"
    /\ RECENT_BATCH' = (req[r].fp :> req[r].now) @@ RECENT_BATCH
    /\ IF MultiFileModified(req[r].payload)
       THEN Answer(r, SuppressedResponse(req[r].payload), 0, 0, 0)
       ELSE req' = [req EXCEPT ![r].pc = "scan"] /\ UNCHANGED srv_log
    /\ UNCHANGED <<clock, EMAIL_STATE>>
    /\ UNCHANGED notSrv

\* the scan loop: ai_scan on every file; issues[i] is the number of findings
\* the LLM reports for file i (0 also when the LLM call fails)
SrvScan(r, issues) ==
    /\ req[r].pc = "scan"
    /\ issues \in [1..Len(req[r].payload.files) -> 0..1]
    /\ req' = [req EXCEPT ![r] = [pc |-> "respond", payload |-> req[r].payload,
                                  fp |-> req[r].fp, now |-> req[r].now,
                                  issues |-> issues]]
    /\ UNCHANGED <<clock, RECENT_BATCH, EMAIL_STATE, srv_log>>
    /\ UNCHANGED notSrv

\* the email step and the response; smtp_ok: send_email got the mail out
SrvRespond(r, smtp_ok) ==
    /\ req[r].pc = "respond"
    /\ LET pl == req[r].payload
           total == Sum(req[r].issues)
           body == _format_email(pl, req[r].issues, clock).body
           wants == pl.email # "" /\ total > 0
           sends == wants /\ ~Suppressed(EMAIL_STATE, pl.email, body, clock)
       IN /\ sends \/ ~smtp_ok
          /\ EMAIL_STATE' = IF sends
                            THEN (pl.email :> [ts |-> clock, digest |-> _digest(body)])
                                    @@ EMAIL_STATE
                            ELSE EMAIL_STATE
          /\ Answer(r, AnalyzedResponse(pl, total, sends /\ smtp_ok, req[r].issues,
                                        req[r].fp),
                    Len(pl.files), IF sends THEN 1 ELSE 0, clock)
    /\ UNCHANGED <<clock, RECENT_BATCH>>
    /\ UNCHANGED notSrv

\* requests handled one after the other
SrvSeqNext ==
    \/ \E r \in Reqs, payload \in SrvPayloads : SrvReceive(r, payload, TRUE)
    \/ \E r \in Reqs : SrvPrune(r)
    \/ \E r \in Reqs : SrvTest(r)
    \/ \E r \in Reqs : SrvRecord(r)
    \/ \E r \in Reqs, issues \in [1..2 -> 0..1] \cup [1..1 -> 0..1] : SrvScan(r, issues)
    \/ \E r \in Reqs, smtp_ok \in BOOLEAN : SrvRespond(r, smtp_ok)
    \/ Tick

\* one request at a time, from a client whose files change between batches
SrvMailNext ==
    \/ \E r \in Reqs, payload \in MailPayloads : SrvReceive(r, payload, TRUE)
    \/ \E r \in Reqs : SrvPrune(r)
    \/ \E r \in Reqs : SrvTest(r)
    \/ \E r \in Reqs : SrvRecord(r)
    \/ \E r \in Reqs, issues \in [1..2 -> 0..1] \cup [1..1 -> 0..1] : SrvScan(r, issues)
    \/ \E r \in Reqs, smtp_ok \in BOOLEAN : SrvRespond(r, smtp_ok)
    \/ Tick

\* one request at a time, from clients that choose their batch_id freely
SrvIdNext ==
    \/ \E r \in Reqs, payload \in IdPayloads : SrvReceive(r, payload, TRUE)
    \/ \E r \in Reqs : SrvPrune(r)
    \/ \E r \in Reqs : SrvTest(r)
    \/ \E r \in Reqs : SrvRecord(r)
    \/ \E r \in Reqs, issues \in [1..2 -> 0..1] \cup [1..1 -> 0..1] : SrvScan(r, issues)
    \/ \E r \in Reqs, smtp_ok \in BOOLEAN : SrvRespond(r, smtp_ok)
    \/ Tick

\* request threads that run concurrently
SrvNext ==
    \/ \E r \in Reqs, payload \in SrvPayloads : SrvReceive(r, payload, FALSE)
    \/ \E r \in Reqs : SrvPrune(r)
    \/ \E r \in Reqs : SrvTest(r)
    \/ \E r \in Reqs : SrvRecord(r)
    \/ \E r \in Reqs, issues \in [1..2 -> 0..1] \cup [1..1 -> 0..1] : SrvScan(r, issues)
    \/ \E r \in Reqs, smtp_ok \in BOOLEAN : SrvRespond(r, smtp_ok)
    \/ Tick

(* ======================= the watch client and the backend together ======================= *)
\* the payload of the _post_batch call of the cycle in progress
ThisPayload ==
    PostPayload(Email, files_to_send, Reason(created_paths), created_paths, bid)

\* _post_batch: requests.post(...) reaches the backend, which starts analyze_batch
E2ePost ==
    /\ pc = "post"
    /\ outcome = "none"
    /\ req[1].pc = "idle"
    /\ Len(srv_log) < MaxRequests
    /\ req' = [req EXCEPT ![1] = [pc |-> "prune", payload |-> ThisPayload,
                                  fp |-> _batch_fingerprint(ThisPayload), now |-> clock]]
    /\ outcome' = "sent"
    /\ UNCHANGED <<clock, disk, events, pending_paths, pending_created, last_event_ts,
                   file_seen, last_notify, recent_batch_ids, history, state_file, dispatched,
                   pc, now, files_all, files_to_send, created_paths, bid, hpc, h_rel,
                   cycle_pre, unmaterialized, burst>>
    /\ UNCHANGED <<fpVars, RECENT_BATCH, EMAIL_STATE, srv_log>>

\* the response came back with r.ok: _post_batch returns r.json(), whatever
\* keys it holds, and the success path runs
E2eReturn ==
    /\ outcome = "sent"
    /\ req[1].pc = "idle"
    /\ MaybeSendPostOk

\* requests.post raised or the status was not ok
E2eFail ==
    /\ req[1].pc = "idle"
    /\ MaybeSendPostFail

\* one watch session posting to a backend that serves this client alone
E2eNext ==
    \/ \E p \in WatchPaths, c \in Contents, created \in BOOLEAN : QAdd(p, c, created)
    \/ QCreated
    \/ QStamp
    \/ \E p \in WatchPaths : FsDelete(p)
    \/ MaybeSendBegin
    \/ MaybeSendCollect
    \/ MaybeSendFilter
    \/ E2ePost
    \/ SrvPrune(1)
    \/ SrvTest(1)
    \/ SrvRecord(1)
    \/ \E issues \in [1..2 -> 0..1] \cup [1..1 -> 0..1] : SrvScan(1, issues)
    \/ \E smtp_ok \in BOOLEAN : SrvRespond(1, smtp_ok)
    \/ E2eReturn
    \/ E2eFail
    \/ MaybeSendClearPaths
    \/ MaybeSendClearCreated
    \/ Tick

(* ======================= specifications ======================= *)
vars == <<clock, watchVars, fpVars, srvVars>>

\* a watch session starts: the state file of an earlier session, or none
InitWatch ==
    /\ clock = Epoch
    /\ disk \in {[p \in WatchPaths |-> IF p = <<"b">> THEN "c1" ELSE x] : x \in {NoFile, "c1"}}
    /\ events = 0
    /\ pending_paths = {}
    /\ pending_created = {}
    /\ last_event_ts = 0
    /\ history \in {EmptyState, PriorState}
    /\ state_file = IF history = EmptyState THEN "missing" ELSE "dict"
    /\ file_seen = _load_state(state_file, history).file_seen
    /\ last_notify = _load_state(state_file, history).last_notify
    /\ recent_batch_ids = _load_state(state_file, history).recent_batch_ids
    /\ pc = "sleep"
    /\ now = 0
    /\ files_all = <<>>
    /\ files_to_send = <<>>
    /\ created_paths = <<>>
    /\ bid = NoBid
    /\ outcome = "none"
    /\ hpc = "idle"
    /\ h_rel = <<>>
    /\ cycle_pre = NoPre
    /\ unmaterialized = {}
    /\ burst = [p \in WatchPaths |-> NoBurst]
    /\ dispatched = IF history = PriorState THEN PriorDispatched ELSE {}
    /\ fp_batch = NoBatch
    /\ fp_out = NoOut
    /\ fp_prev = NoOut
    /\ fp_op = "input"
    /\ fp_was = NoBatch
    /\ RECENT_BATCH = <<>>
    /\ EMAIL_STATE = <<>>
    /\ req = [r \in Reqs |-> IdleReq]
    /\ srv_log = <<>>

\* a watch session starts after the state file of the earlier session (which
\* had analysed b) was deleted, overwritten with garbage or with a JSON list;
\* history is what a later session can load from the file
InitCold ==
    /\ clock = Epoch
    /\ disk \in {[p \in WatchPaths |-> IF p = <<"b">> THEN "c1" ELSE x] : x \in {NoFile, "c1"}}
    /\ events = 0
    /\ pending_paths = {}
    /\ pending_created = {}
    /\ last_event_ts = 0
    /\ history = EmptyState
    /\ state_file \in {"missing", "unparsable", "list"}
    /\ file_seen = _load_state(state_file, history).file_seen
    /\ last_notify = _load_state(state_file, history).last_notify
    /\ recent_batch_ids = _load_state(state_file, history).recent_batch_ids
    /\ pc = IF StateGetRaises(state_file) THEN "crashed" ELSE "sleep"
    /\ now = 0
    /\ files_all = <<>>
    /\ files_to_send = <<>>
    /\ created_paths = <<>>
    /\ bid = NoBid
    /\ outcome = "none"
    /\ hpc = "idle"
    /\ h_rel = <<>>
    /\ cycle_pre = NoPre
    /\ unmaterialized = {}
    /\ burst = [p \in WatchPaths |-> NoBurst]
    /\ dispatched = {}
    /\ fp_batch = NoBatch
    /\ fp_out = NoOut
    /\ fp_prev = NoOut
    /\ fp_op = "input"
    /\ fp_was = NoBatch
    /\ RECENT_BATCH = <<>>
    /\ EMAIL_STATE = <<>>
    /\ req = [r \in Reqs |-> IdleReq]
    /\ srv_log = <<>>

\* the fingerprint functions get a batch a client can build
InitFp ==
    /\ clock = Epoch
    /\ disk = [p \in WatchPaths |-> NoFile]
    /\ events = 0
    /\ pending_paths = {}
    /\ pending_created = {}
    /\ last_event_ts = 0
    /\ history = EmptyState
    /\ state_file = "missing"
    /\ file_seen = {}
    /\ last_notify = <<>>
    /\ recent_batch_ids = <<>>
    /\ pc = "sleep"
    /\ now = 0
    /\ files_all = <<>>
    /\ files_to_send = <<>>
    /\ created_paths = <<>>
    /\ bid = NoBid
    /\ outcome = "none"
    /\ hpc = "idle"
    /\ h_rel = <<>>
    /\ cycle_pre = NoPre
    /\ unmaterialized = {}
    /\ burst = [p \in WatchPaths |-> NoBurst]
    /\ dispatched = {}
    /\ fp_batch \in {b \in FpBatches : ClientBatch(b)}
    /\ fp_out = NoOut
    /\ fp_prev = NoOut
    /\ fp_op = "input"
    /\ fp_was = NoBatch
    /\ RECENT_BATCH = <<>>
    /\ EMAIL_STATE = <<>>
    /\ req = [r \in Reqs |-> IdleReq]
    /\ srv_log = <<>>

\* the fingerprint functions get a batch of files with arbitrary names
InitSeed ==
    /\ clock = Epoch
    /\ disk = [p \in WatchPaths |-> NoFile]
    /\ events = 0
    /\ pending_paths = {}
    /\ pending_created = {}
    /\ last_event_ts = 0
    /\ history = EmptyState
    /\ state_file = "missing"
    /\ file_seen = {}
    /\ last_notify = <<>>
    /\ recent_batch_ids = <<>>
    /\ pc = "sleep"
    /\ now = 0
    /\ files_all = <<>>
    /\ files_to_send = <<>>
    /\ created_paths = <<>>
    /\ bid = NoBid
    /\ outcome = "none"
    /\ hpc = "idle"
    /\ h_rel = <<>>
    /\ cycle_pre = NoPre
    /\ unmaterialized = {}
    /\ burst = [p \in WatchPaths |-> NoBurst]
    /\ dispatched = {}
    /\ fp_batch \in SeedBatches
    /\ fp_out = NoOut
    /\ fp_prev = NoOut
    /\ fp_op = "input"
    /\ fp_was = NoBatch
    /\ RECENT_BATCH = <<>>
    /\ EMAIL_STATE = <<>>
    /\ req = [r \in Reqs |-> IdleReq]
    /\ srv_log = <<>>

\* the backend process starts: both caches are empty
InitSrv ==
    /\ clock = Epoch
    /\ disk = [p \in WatchPaths |-> NoFile]
    /\ events = 0
    /\ pending_paths = {}
    /\ pending_created = {}
    /\ last_event_ts = 0
    /\ history = EmptyState
    /\ state_file = "missing"
    /\ file_seen = {}
    /\ last_notify = <<>>
    /\ recent_batch_ids = <<>>
    /\ pc = "sleep"
    /\ now = 0
    /\ files_all = <<>>
    /\ files_to_send = <<>>
    /\ created_paths = <<>>
    /\ bid = NoBid
    /\ outcome = "none"
    /\ hpc = "idle"
    /\ h_rel = <<>>
    /\ cycle_pre = NoPre
    /\ unmaterialized = {}
    /\ burst = [p \in WatchPaths |-> NoBurst]
    /\ dispatched = {}
    /\ fp_batch = NoBatch
    /\ fp_out = NoOut
    /\ fp_prev = NoOut
    /\ fp_op = "input"
    /\ fp_was = NoBatch
    /\ RECENT_BATCH = <<>>
    /\ EMAIL_STATE = <<>>
    /\ req = [r \in Reqs |-> IdleReq]
    /\ srv_log = <<>>

\* a first watch session and a backend process that has just started
InitE2e ==
    /\ clock = Epoch
    /\ disk \in {[p \in WatchPaths |-> IF p = <<"b">> THEN "c1" ELSE x] : x \in {NoFile, "c1"}}
    /\ events = 0
    /\ pending_paths = {}
    /\ pending_created = {}
    /\ last_event_ts = 0
    /\ history = EmptyState
    /\ state_file = "missing"
    /\ file_seen = {}
    /\ last_notify = <<>>
    /\ recent_batch_ids = <<>>
    /\ pc = "sleep"
    /\ now = 0
    /\ files_all = <<>>
    /\ files_to_send = <<>>
    /\ created_paths = <<>>
    /\ bid = NoBid
    /\ outcome = "none"
    /\ hpc = "idle"
    /\ h_rel = <<>>
    /\ cycle_pre = NoPre
    /\ unmaterialized = {}
    /\ burst = [p \in WatchPaths |-> NoBurst]
    /\ dispatched = {}
    /\ fp_batch = NoBatch
    /\ fp_out = NoOut
    /\ fp_prev = NoOut
    /\ fp_op = "input"
    /\ fp_was = NoBatch
    /\ RECENT_BATCH = <<>>
    /\ EMAIL_STATE = <<>>
    /\ req = [r \in Reqs |-> IdleReq]
    /\ srv_log = <<>>

\* one session of the watch client
SpecWatch == InitWatch /\ [][WatchNext]_vars

\* one session of the watch client after the state file was lost or damaged
SpecColdStart == InitCold /\ [][WatchNext]_vars

\* one session of the watch client in a tree with an excluded directory
SpecExcluded == InitWatch /\ [][ExcludedNext]_vars

\* watch sessions one after the other on the same state file
SpecSessions == InitWatch /\ [][SessionsNext]_vars

\* the scheduling of watch(): the while True loop of lines 412-418 keeps
\* calling _maybe_send, which runs to its return; _post_batch returns or
\* raises (requests timeout=300); time passes; the observer thread runs a
\* handler it started to its end. Nothing obliges the environment to change
\* files or the user to restart.
LoopFairness ==
    /\ WF_vars(MaybeSendBegin)
    /\ WF_vars(MaybeSendCollect)
    /\ WF_vars(MaybeSendFilter)
    /\ WF_vars(MaybeSendPostOk \/ MaybeSendPostFail)
    /\ WF_vars(MaybeSendClearPaths)
    /\ WF_vars(MaybeSendClearCreated)
    /\ WF_vars(Tick)
    /\ WF_vars(QCreated)
    /\ WF_vars(QStamp)

\* watch sessions one after the other, with a loop that keeps running
SpecSessionsFair == InitWatch /\ [][SessionsNext]_vars /\ LoopFairness

\* a watch session posting its batches to the backend
SpecE2e == InitE2e /\ [][E2eNext]_vars

\* the two fingerprint functions on the batches a client can build
SpecFp == InitFp /\ [][FpNext]_vars

\* the pre-digest strings of the batches a client can build
SpecSeed == InitSeed /\ [][SeedNext]_vars

\* the backend answering one request at a time
SpecServerSeq == InitSrv /\ [][SrvSeqNext]_vars

\* the backend answering the batches of one recipient whose files change
SpecServerMail == InitSrv /\ [][SrvMailNext]_vars

\* the backend answering clients that choose their batch_id freely
SpecServerIds == InitSrv /\ [][SrvIdNext]_vars

\* the backend with two request threads
SpecServer == InitSrv /\ [][SrvNext]_vars

(* ======================= claims on the watch client ======================= *)
InBatch(p) == p \in PathsOf(files_to_send)
Collected(p) == p \in PathsOf(files_all)
ContentRead(p) == (CHOOSE f \in SeqToSet(files_all) : f.path = p).content

\* C1 (debounce): every burst of modify events on one path, consecutive events
\* less than DEBOUNCE_SECONDS apart, is materialized exactly once (never twice,
\* and never dropped without a snapshot once the loop is back in its sleep), and
\* a cycle that reaches _post_batch started with a non-empty pending set and a
\* quiet period of at least DEBOUNCE_SECONDS.
C1_DebounceOneBatchPerBurst ==
    /\ \A p \in WatchPaths :
          burst[p].phase # "none" /\ burst[p].modify_only =>
             /\ burst[p].mat <= 1
             /\ (pc = "sleep" /\ hpc = "idle" /\ p \notin pending_paths
                    => burst[p].mat = 1)
    /\ pc = "post" =>
          /\ cycle_pre.pending_paths # {}
          /\ now - cycle_pre.last_event_ts >= DEBOUNCE_SECONDS

\* C2 (created before modified): a batch handed to _post_batch that has a
\* created path holds that one file only; a created path and a non-created
\* path are never in the same batch.
C2_CreatedNeverCombined ==
    pc = "post" /\ created_paths # <<>> =>
        /\ Len(files_to_send) = 1
        /\ PathsOf(files_to_send) \subseteq SeqToSet(created_paths)

\* C3 (one file per watch batch): every batch the watch loop hands to
\* _post_batch, reason created or modified, holds exactly one file.
C3_OneFilePerBatch ==
    pc = "post" => Len(files_to_send) = 1

\* C4 (cooldown suppression): once the cooldown filter has run, a collected
\* path whose last_notify entry holds the digest just read is left out of the
\* batch iff now - ts < FILE_COOLDOWN_SEC; a path with another digest or with
\* no entry is always in the batch.
C4_CooldownSuppression ==
    (pc = "post" \/ (pc = "clear" /\ outcome = "none")) =>
        \A p \in PathsOf(files_all) :
            IF p \in DOMAIN last_notify
               /\ last_notify[p].digest = HexDigest(ContentRead(p))
            THEN ~InBatch(p) <=> (now - last_notify[p].ts) < FILE_COOLDOWN_SEC
            ELSE InBatch(p)

\* C4 witness: one filter pass left out a path with an unchanged digest inside
\* the cooldown and kept a path that has no entry.
C4_Witness ==
    /\ pc = "post"
    /\ \E p \in PathsOf(files_all) :
          /\ p \in DOMAIN last_notify
          /\ last_notify[p].digest = HexDigest(ContentRead(p))
          /\ (now - last_notify[p].ts) < FILE_COOLDOWN_SEC
          /\ ~InBatch(p)
    /\ \E q \in PathsOf(files_all) : q \notin DOMAIN last_notify /\ InBatch(q)

\* an unchanged digest is sent again once the cooldown has elapsed
C4_SentAgainAfterCooldown ==
    /\ pc = "post"
    /\ \E p \in PathsOf(files_all) :
          /\ p \in DOMAIN last_notify
          /\ last_notify[p].digest = HexDigest(ContentRead(p))
          /\ (now - last_notify[p].ts) >= FILE_COOLDOWN_SEC
          /\ InBatch(p)

\* C5 (failed Analyze call mutates nothing): when _post_batch raised, file_seen,
\* last_notify, the unexpired entries of recent_batch_ids and the state file
\* are what they were when the cycle started.
C5_FailureLeavesDedupState ==
    pc = "clear" /\ outcome = "failed" =>
        /\ file_seen = cycle_pre.dedup.file_seen
        /\ last_notify = cycle_pre.dedup.last_notify
        /\ _evict(recent_batch_ids, now) = _evict(cycle_pre.dedup.recent_batch_ids, now)
        /\ history = cycle_pre.dedup.history

\* C6 (atomic snapshot-and-clear): an event recorded by H._q stays in
\* pending_paths until a snapshot of pending_paths has held it; no recorded
\* event is discarded without having been part of a materialized snapshot.
C6_NoRecordedEventDiscarded ==
    unmaterialized \subseteq pending_paths

(* ======================= claims on the fingerprints ======================= *)
\* C7 (fingerprint determinism): the client's _batch_id and the server's
\* _batch_fingerprint are both unchanged by a permutation of the file list
\* (paths that differ only in letter case included), and both change when one
\* file's content changes, when the reason changes and when the repo identity
\* changes.
C7_FingerprintDeterminism ==
    /\ fp_op = "permuted" => fp_out = fp_prev
    /\ fp_op \in {"content", "reason", "repo"} =>
          /\ fp_out.client # fp_prev.client
          /\ fp_out.server # fp_prev.server

\* C8 (client/server agreement): the batch_id the client sends equals the
\* fingerprint the server recomputes from the payload it received.
C8_ClientServerAgreement ==
    fp_op # "input" => fp_out.client = fp_out.server


(* ======================= claims on the backend ======================= *)
IsDuplicateResponse(resp) == "deduped" \in DOMAIN resp /\ resp.deduped

\* answers i < j to the same payload, i not a duplicate response, j received
\* no later than BATCH_TTL after i
Resubmitted(i, j) ==
    /\ i < j
    /\ srv_log[i].payload = srv_log[j].payload
    /\ ~IsDuplicateResponse(srv_log[i].response)
    /\ srv_log[j].now >= srv_log[i].now
    /\ srv_log[j].now - srv_log[i].now <= BATCH_TTL

\* C9: when the backend handles requests one at a time, a batch identical to
\* one it accepted at most BATCH_TTL seconds earlier gets the duplicate
\* response (which no analysed batch gets, not even one with zero issues),
\* and neither a scan nor an email is run for it
C9_DuplicateRejected ==
    \A i, j \in 1..Len(srv_log) :
        Resubmitted(i, j) =>
            /\ IsDuplicateResponse(srv_log[j].response)
            /\ srv_log[j].response = DedupedResponse(srv_log[j].payload)
            /\ srv_log[j].scans = 0
            /\ srv_log[j].emails = 0
            /\ \A k \in 1..Len(srv_log) :
                  (srv_log[k].scans > 0 /\ srv_log[k].response.issues_found = 0)
                      => srv_log[k].response # srv_log[j].response

\* C9 witness: an analysed single-file batch was sent again exactly BATCH_TTL
\* seconds later and answered as a duplicate
C9_Witness ==
    \E i, j \in 1..Len(srv_log) :
        /\ Resubmitted(i, j)
        /\ srv_log[j].now - srv_log[i].now = BATCH_TTL
        /\ srv_log[i].scans = 1
        /\ IsDuplicateResponse(srv_log[j].response)

PastDedup(r) == req[r].pc \in {"scan", "respond"}

\* C10: of the requests for one fingerprint that the backend handles at the
\* same time, received within BATCH_TTL of each other, at most one gets past
\* the duplicate test to the scan and the email
C10_OneConcurrentWinner ==
    \A r1, r2 \in Reqs :
        (/\ r1 # r2
         /\ PastDedup(r1)
         /\ PastDedup(r2)
         /\ req[r1].fp = req[r2].fp)
            => ~(req[r1].now - req[r2].now <= BATCH_TTL /\ req[r2].now - req[r1].now <= BATCH_TTL)


Analysed(k) == srv_log[k].scans > 0

\* the findings the analysis of answer k reported to its recipient
FindingsOf(k) == Findings(srv_log[k].payload.files, srv_log[k].response.results)

\* C11 (per-recipient email suppression): two analyses with the same findings
\* for the same recipient, whose email steps are less than EMAIL_MIN_INTERVAL
\* apart, call send_email at most once.
C11_OneEmailPerFindings ==
    \A i, j \in 1..Len(srv_log) :
        (/\ i < j
         /\ Analysed(i)
         /\ Analysed(j)
         /\ srv_log[i].payload.email = srv_log[j].payload.email
         /\ srv_log[i].payload.notify_reason = srv_log[j].payload.notify_reason
         /\ FindingsOf(i) = FindingsOf(j)
         /\ srv_log[j].at - srv_log[i].at < EMAIL_MIN_INTERVAL)
            => srv_log[i].emails + srv_log[j].emails <= 1


(* ======================= more claims on the watch client ======================= *)
\* C12 (cold start): a session that starts with the state file missing,
\* unparsable or parsable but not of the expected shape does not crash; it
\* runs with empty dedup state until its first save, and it hands an unchanged
\* file to _post_batch again only when no send of that digest was recorded in
\* the last FILE_COOLDOWN_SEC.
C12_ColdStartResilience ==
    /\ pc # "crashed"
    /\ state_file # "dict" => last_notify = <<>> /\ recent_batch_ids = <<>>
    /\ pc = "post" =>
          \A i \in 1..Len(files_to_send) :
              (/\ files_to_send[i].path \in DOMAIN last_notify
               /\ last_notify[files_to_send[i].path].digest
                      = HexDigest(files_to_send[i].content))
                  => now - last_notify[files_to_send[i].path].ts >= FILE_COOLDOWN_SEC


\* C13 (no repeat analysis): a batch handed to _post_batch has a fingerprint
\* that no delivered batch had in the last INPUT_DEDUPE_TTL seconds, and holds
\* no path with a digest that a delivered batch held for that path less than
\* FILE_COOLDOWN_SEC ago; in one session and across restarts.
C13_NoRepeatAnalysis ==
    pc = "post" =>
        \A d \in dispatched :
            /\ d.bid = bid => now - d.ts > INPUT_DEDUPE_TTL
            /\ \A part \in SeqToSet(FileParts(files_to_send)) :
                  part \in d.parts => now - d.ts >= FILE_COOLDOWN_SEC


\* the duplicate-batch guard returned: files passed the cooldown, no post was made
GuardHit == pc = "clear" /\ outcome = "none" /\ files_to_send # <<>>

\* the entries of a recent_batch_ids list that are at most INPUT_DEDUPE_TTL old
Unexpired(ids, t) == {ids[i] : i \in {k \in 1..Len(ids) : t - ids[k][1] <= INPUT_DEDUPE_TTL}}

\* the fingerprint of this cycle was in recent_batch_ids, unexpired, when the cycle started
KnownFingerprint ==
    \E e \in Unexpired(cycle_pre.dedup.recent_batch_ids, now) : e[2] = bid

\* C14 (duplicate-batch guard): a cycle whose fingerprint is present and
\* unexpired in recent_batch_ids makes no Analyze call and leaves file_seen,
\* last_notify, the unexpired entries of recent_batch_ids and the state file
\* as they were; a cycle that reaches _post_batch has a fingerprint that was
\* not present.
C14_GuardLeavesState ==
    /\ GuardHit =>
          /\ KnownFingerprint
          /\ file_seen = cycle_pre.dedup.file_seen
          /\ last_notify = cycle_pre.dedup.last_notify
          /\ Unexpired(recent_batch_ids, now) = Unexpired(cycle_pre.dedup.recent_batch_ids, now)
          /\ history = cycle_pre.dedup.history
    /\ pc = "post" => ~KnownFingerprint

\* C14 witness: the guard stopped a batch whose file had passed the cooldown
C14_Witness ==
    /\ GuardHit
    /\ KnownFingerprint
    /\ cycle_pre.dedup.recent_batch_ids # <<>>


\* _post_batch returned and the bookkeeping of this cycle is done
PostSucceeded == pc = "clear" /\ outcome = "ok"

C16_ExcludedEventsRejected ==
    [][(hpc' # hpc /\ (h_rel = ExcludedPath \/ h_rel' = ExcludedPath))
          => UNCHANGED <<pending_paths, pending_created, last_event_ts>>]_vars


(* ======================= more claims on the backend ======================= *)
\* the payloads agree in repo_id, notify_reason, created_paths and files
SameBatch(p, q) ==
    /\ RepoIdOf(p) = RepoIdOf(q)
    /\ p.notify_reason = q.notify_reason
    /\ p.created_paths = q.created_paths
    /\ p.files = q.files

PairsOf(b) == {<<b.files[i].path, HexDigest(b.files[i].content)>> : i \in 1..Len(b.files)}

\* two batches differ in reason, repo identity, created paths or (path, digest) pairs
LogicallyDiffer(b1, b2) ==
    \/ b1.reason # b2.reason
    \/ b1.repo # b2.repo
    \/ SeqToSet(b1.created) # SeqToSet(b2.created)
    \/ PairsOf(b1) # PairsOf(b2)

\* C18 (unambiguous composition): two batches that differ in reason, repo
\* identity, the set of created paths or the set of (path, digest) pairs have
\* different pre-digest strings, in _batch_id and in _batch_fingerprint.
C18_SeedInjective ==
    (fp_op = "replaced" /\ LogicallyDiffer(fp_was, fp_batch)) =>
        /\ fp_out.client.sha256 # fp_prev.client.sha256
        /\ fp_out.server.sha256 # fp_prev.server.sha256


(* ======================= claims on the pending set ======================= *)
\* C19 (pending set): pending_created is a subset of pending_paths in every
\* state, whatever the interleaving of H._q and _maybe_send (the state between
\* the loop's own two clear() calls aside).
C19_CreatedSubsetOfPending ==
    pc # "clear_created" => pending_created \subseteq pending_paths


(* ======================= claims on the backend's cache ======================= *)
\* C20 (TTL pruning), requests handled one at a time: after the prune step of
\* a request received at time now, RECENT_BATCH holds no entry older than
\* BATCH_TTL; a request is answered as a duplicate only when the same payload
\* was recorded at most BATCH_TTL before it; and a request that passes the
\* test has its fingerprint recorded with its own time.
C20_TtlPruning ==
    /\ \A r \in Reqs :
          /\ req[r].pc \in {"test", "record"} =>
                \A k \in DOMAIN RECENT_BATCH : req[r].now - RECENT_BATCH[k] <= BATCH_TTL
          /\ req[r].pc \in {"scan", "respond"} =>
                /\ req[r].fp \in DOMAIN RECENT_BATCH
                /\ RECENT_BATCH[req[r].fp] = req[r].now
    /\ \A j \in 1..Len(srv_log) :
          IsDuplicateResponse(srv_log[j].response) =>
              \E i \in 1..(j - 1) :
                  /\ srv_log[i].payload = srv_log[j].payload
                  /\ ~IsDuplicateResponse(srv_log[i].response)
                  /\ srv_log[j].now - srv_log[i].now <= BATCH_TTL

\* C20 witness: a payload recorded more than BATCH_TTL ago came again and was
\* analysed again
C20_Witness ==
    \E i, j \in 1..Len(srv_log) :
        /\ i < j
        /\ srv_log[i].payload = srv_log[j].payload
        /\ srv_log[i].scans > 0
        /\ srv_log[j].scans > 0
        /\ srv_log[j].now - srv_log[i].now > BATCH_TTL


(* ======================= claims on the scheduler ======================= *)
\* the loop sleeps and the pending set (paths and created marks) is empty
Idle == pc = "sleep" /\ pending_paths = {} /\ pending_created = {}

\* the clock of the model ends before the quiet period after the last event does
Horizon == clock = MaxClock /\ clock - last_event_ts < DEBOUNCE_SECONDS

\* C21 (scheduler liveness): the events of a run are finitely many; with a
\* loop that keeps running, the cycles that follow them end and from some
\* point on the loop is idle with an empty pending set, and pending_paths,
\* once empty, is filled again only by a new event.
C21_SchedulerLiveness ==
    /\ <>[](Idle \/ Horizon)
    /\ [][pending_paths = {} /\ pending_paths' # {} => hpc = "idle" /\ hpc' # "idle"]_vars


(* ======================= claims on the seen store ======================= *)
\* this step is the success path of a cycle whose batch holds p
SentInStep(p) == pc = "post" /\ outcome' = "ok" /\ p \in PathsOf(files_to_send)

GuardEvaluated == pc \in {"post", "clear", "clear_created"} /\ files_to_send # <<>>

\* C23 (recent_batch_ids is ordered, front-only eviction is complete): the
\* timestamps of recent_batch_ids never decrease along the list, in a list
\* loaded from the state file of an earlier session too; after _already or
\* _remember ran at time now, no entry is more than INPUT_DEDUPE_TTL older
\* than now.
C23_EvictionComplete ==
    /\ \A i, j \in 1..Len(recent_batch_ids) :
          i < j => recent_batch_ids[i][1] <= recent_batch_ids[j][1]
    /\ GuardEvaluated =>
          \A i \in 1..Len(recent_batch_ids) :
              now - recent_batch_ids[i][1] <= INPUT_DEDUPE_TTL

\* C23 witness: the list the cycle found held an expired entry in front of an
\* unexpired one; the expired entry is gone and the unexpired one was kept
C23_Witness ==
    /\ GuardEvaluated
    /\ Len(cycle_pre.dedup.recent_batch_ids) >= 2
    /\ now - cycle_pre.dedup.recent_batch_ids[1][1] > INPUT_DEDUPE_TTL
    /\ now - cycle_pre.dedup.recent_batch_ids[2][1] <= INPUT_DEDUPE_TTL
    /\ cycle_pre.dedup.recent_batch_ids[2] \in SeqToSet(recent_batch_ids)


(* ======================= claims on client and backend together ======================= *)
\* request k had the fingerprint of the batch of this cycle and ai_scan ran
\* on every file of it
AnalysedAs(k) ==
    /\ _batch_fingerprint(srv_log[k].payload) = _batch_fingerprint(ThisPayload)
    /\ srv_log[k].scans = Len(files_to_send)

\* C24 (end to end): when the client has recorded a batch as sent, the backend
\* ran ai_scan on every file of that batch, for this request or for an
\* earlier identical one.
C24_SentOnlyIfAnalysed ==
    PostSucceeded => \E k \in 1..Len(srv_log) : AnalysedAs(k)


(* ======================= claims on the backend's record ======================= *)
\* request i was recorded and then gave the client nothing: the multi-file
\* guard returned early, or no file had a finding (the LLM call failed or
\* found nothing), or the email did not go out
NothingDelivered(i) ==
    /\ ~IsDuplicateResponse(srv_log[i].response)
    /\ \/ srv_log[i].scans = 0
       \/ srv_log[i].response.issues_found = 0
       \/ ~srv_log[i].response.email_sent

\* C25 (the record is never undone), requests handled one at a time: an entry
\* of RECENT_BATCH leaves it only in a prune step for which it is expired,
\* and its timestamp is not changed while it is there; a batch first
\* submitted with no analysis, no finding or no email delivered and submitted
\* again within BATCH_TTL is answered as a duplicate.
C25_RecordNeverUndone ==
    /\ [][\A k \in DOMAIN RECENT_BATCH :
             IF k \in DOMAIN RECENT_BATCH'
             THEN RECENT_BATCH'[k] = RECENT_BATCH[k]
             ELSE \E r \in Reqs : /\ req[r].pc = "prune"
                                  /\ req'[r].pc = "test"
                                  /\ Expired(RECENT_BATCH[k], req[r].now)]_vars
    /\ [](\A i, j \in 1..Len(srv_log) :
             (/\ i < j
              /\ srv_log[i].payload = srv_log[j].payload
              /\ NothingDelivered(i)
              /\ srv_log[j].now - srv_log[i].now <= BATCH_TTL)
                 => IsDuplicateResponse(srv_log[j].response))

\* C25 witness: a batch stopped by the multi-file guard, never scanned, was
\* submitted again within BATCH_TTL and answered as a duplicate
C25_Witness ==
    \E i, j \in 1..Len(srv_log) :
        /\ i < j
        /\ srv_log[i].payload = srv_log[j].payload
        /\ "suppressed" \in DOMAIN srv_log[i].response
        /\ srv_log[i].scans = 0
        /\ srv_log[j].now - srv_log[i].now <= BATCH_TTL
        /\ IsDuplicateResponse(srv_log[j].response)

====
